---- MODULE Spec2Model ----
(***************************************************************************)
(* Model of the MaRDI paper-to-code linker: the ledger store               *)
(* (tasks/storage.py), the enrichment client (tasks/fetch.py and           *)
(* tasks/mardi_kg_query.py), the batch dispatcher                          *)
(* (tasks/process_pwc_dump.py) and the publisher                           *)
(* (tasks/mardi_kg_updates.py), as driven by workflow_main.process_papers. *)
(***************************************************************************)
EXTENDS Integers, Sequences, FiniteSets, TLC

\* ------------------------------------------------------------------ bounds
\* Longest dump (number of entries of the JSON array) that is explored.
MaxDump == 2
\* Number of insert_hits calls explored by the store-level specification.
MaxClock == 2
\* Largest max_retries explored for the retrying enrichment client.
MaxRetries == 3
\* Number of pipeline runs (process_papers invocations) that are explored.
MaxRuns == 2
\* Longest list and largest batch size given to _batchify on its own.
MaxItems == 4
MaxSize == 3
\* Longest snippet, in chunks, given to the qid extraction on its own.
MaxChunks == 4

\* ------------------------------------------------------------- data model
\* Python's None for string-typed values; absent token sequences and absent
\* timestamps are the empty tuple.
None == "None"
NoQid == << >>
NullTs == << >>
\* last_exception = None
NoException == << >>

ArxivIds == {"a1", "a2"}

\* The configurations explored: <<batch_size, max_workers>>.
Configs == {<<1, 1>>, <<2, 1>>, <<2, 2>>}

\* The snippet alphabet: the two highlighting tags are single tokens, the
\* rest are characters.
OpenTag == "<span class=\"searchmatch\">"
CloseTag == "</span>"
Digits == {"1", "2"}

Paper(id, repo, url, off, mip, mig) ==
    [paper_arxiv_id |-> id, repo_url |-> repo, paper_url |-> url,
     is_official |-> off, mentioned_in_paper |-> mip, mentioned_in_github |-> mig]

\* Dump entries: two entries for the same paper (one of them without a
\* repository URL), one for a second paper, and one entry with no arXiv id.
Papers ==
    { Paper("a1", "r1", "u1", TRUE, TRUE, FALSE),
      Paper("a1", None, "u1", FALSE, FALSE, TRUE),
      Paper("a2", "r3", "u2", TRUE, FALSE, FALSE),
      Paper(None, "r4", "u3", FALSE, FALSE, FALSE) }

\* Entries of a search response (query.search[]).
EntryQ1 == [title |-> "Publication:1", snippet |-> <<OpenTag, "Q", "I", "D", CloseTag, "Q", "1", "x">>]
EntryQ12 == [title |-> "Publication:12", snippet |-> <<"x", "Q", "I", "D", "Q", "1", "2">>]
EntryNoQid == [title |-> "Publication:3", snippet |-> <<"Q", "I", "D", "x">>]
EntryBare == [snippet |-> <<"Q", "2">>]

\* Search responses: no result, one result, several results.
Responses ==
    { << >>, <<EntryQ1>>, <<EntryNoQid>>, <<EntryQ1, EntryQ12>>, <<EntryBare>> }

\* --------------------------------------------------- enrichment: pure part
\* dict.get(key, default)
Get(d, key, default) == IF key \in DOMAIN d THEN d[key] ELSE default

\* Variant that leaves the highlighting markup in the snippet.
KeepSnippet(s) == s
\* snippet.replace(OpenTag, "").replace(CloseTag, "")
CleanSnippet(s) == SelectSeq(s, LAMBDA c : c \notin {OpenTag, CloseTag})

RECURSIVE DigitRun(_, _)
\* The maximal run of digits of s that starts at position i (\d+ is greedy).
DigitRun(s, i) ==
    IF i <= Len(s) /\ s[i] \in Digits THEN <<s[i]>> \o DigitRun(s, i + 1) ELSE << >>

\* Whether QID(Q\d+) matches at position i of s.
MatchesAt(s, i) ==
    /\ i + 4 <= Len(s)
    /\ s[i] = "Q" /\ s[i + 1] = "I" /\ s[i + 2] = "D" /\ s[i + 3] = "Q"
    /\ s[i + 4] \in Digits

\* re.search(r"QID(Q\d+)", s): group 1 of the leftmost match, or no qid.
ExtractQid(s) ==
    LET ms == {i \in 1..Len(s) : MatchesAt(s, i)} IN
    IF ms = {} THEN NoQid
    ELSE LET i == CHOOSE m \in ms : \A n \in ms : m <= n IN <<"Q">> \o DigitRun(s, i + 4)

\* The hit built for one result entry r.
EntryHit(arxiv_id, paper, r) ==
    LET clean_snippet == CleanSnippet(Get(r, "snippet", << >>)) IN
    [qid |-> ExtractQid(clean_snippet),
     arxiv_id |-> arxiv_id,
     title |-> Get(r, "title", "(no title)"),
     repo_url |-> Get(paper, "repo_url", None),
     is_official |-> Get(paper, "is_official", FALSE),
     mentioned_in_paper |-> Get(paper, "mentioned_in_paper", FALSE),
     mentioned_in_github |-> Get(paper, "mentioned_in_github", FALSE),
     pwc_page |-> Get(paper, "paper_url", None),
     snippet |-> clean_snippet]

\* The single entry appended when the response has no result.
Placeholder(arxiv_id, paper) ==
    [qid |-> NoQid,
     arxiv_id |-> arxiv_id,
     title |-> None,
     repo_url |-> Get(paper, "repo_url", None),
     is_official |-> Get(paper, "is_official", FALSE),
     mentioned_in_paper |-> Get(paper, "mentioned_in_paper", FALSE),
     mentioned_in_github |-> Get(paper, "mentioned_in_github", FALSE),
     pwc_page |-> Get(paper, "paper_url", None),
     snippet |-> << >>]

\* Variant without the placeholder: an empty result list stays empty.
AppendNothing(results, arxiv_id, paper) == results
\* `if not results: results.append(placeholder)`
AppendIfEmpty(results, arxiv_id, paper) ==
    IF results = << >> THEN <<Placeholder(arxiv_id, paper)>> ELSE results

\* The result list query_mardi_kg returns for the response `response`.
BuildHits(arxiv_id, paper, response) ==
    AppendIfEmpty([i \in 1..Len(response) |-> EntryHit(arxiv_id, paper, response[i])],
                  arxiv_id, paper)

\* ------------------------------------------------------------ ledger store
HitFields ==
    {"qid", "arxiv_id", "title", "repo_url", "is_official", "mentioned_in_paper",
     "mentioned_in_github", "pwc_page", "snippet"}

\* The hit columns of a row (or the fields of a hit), without flag and stamps.
HitPart(r) == [f \in HitFields |-> r[f]]

\* hit.setdefault(key, value)
SetDefault(hit, key, value) ==
    IF key \in DOMAIN hit THEN hit
    ELSE [f \in DOMAIN hit \cup {key} |-> IF f = key THEN value ELSE hit[f]]

\* hit[key] = value
SetItem(hit, key, value) ==
    [f \in DOMAIN hit \cup {key} |-> IF f = key THEN value ELSE hit[f]]

\* The three statements insert_hits runs on a hit before the INSERT.
PrepareHit(hit, now) ==
    SetDefault(SetItem(SetDefault(hit, "updated_in_mardi_kg", 0),
                       "timestamp_added_to_db", <<now>>),
               "timestamp_added_to_mardikg", NullTs)

\* Variant INSERT OR IGNORE: an existing row with the same key is kept.
InsertOrIgnore(table, row) ==
    IF \E r \in table : r.arxiv_id = row.arxiv_id THEN table ELSE table \cup {row}
\* INSERT OR REPLACE INTO hits: the row with the same primary key is deleted.
InsertOrReplace(table, row) ==
    {r \in table : r.arxiv_id # row.arxiv_id} \cup {row}

RECURSIVE InsertLoop(_, _, _)
\* The loop of insert_hits over `hs`, on the connection's view of the table.
InsertLoop(table, hs, now) ==
    IF hs = << >> THEN table
    ELSE InsertLoop(InsertOrReplace(table, PrepareHit(Head(hs), now)), Tail(hs), now)

\* Variant that loads nothing: every entry of the dump is processed again.
LoadNoArxivIds(table) == {}
\* SELECT arxiv_id FROM hits
LoadMatchedArxivIds(table) == {r.arxiv_id : r \in {x \in table : x.qid # NoQid}}
LoadExistingArxivIds(table) == {r.arxiv_id : r \in table}

\* Variant without the qid condition.
LoadUnpublished(table) == {r \in table : r.updated_in_mardi_kg = 0}
\* SELECT * FROM hits WHERE updated_in_mardi_kg = 0 AND qid IS NOT NULL
LoadHits(table) == {r \in table : r.updated_in_mardi_kg = 0 /\ r.qid # NoQid}

\* Variant UPDATE without the WHERE clause: every row is flagged.
MarkAllUpdated(table, arxiv_id) ==
    {[r EXCEPT !.updated_in_mardi_kg = 1] : r \in table}
\* UPDATE hits SET updated_in_mardi_kg = 1 WHERE arxiv_id = ?
MarkUpdated(table, arxiv_id) ==
    {IF r.arxiv_id = arxiv_id THEN [r EXCEPT !.updated_in_mardi_kg = 1] ELSE r : r \in table}

\* ------------------------------------------------------------------- state
VARIABLES
    \* the ledger store: whether the hits table exists, its committed rows, and
    \* the wall clock that stamps timestamp_added_to_db
    has_table, hits, clock,
    \* bookkeeping of the store-level specification: the last store call, and
    \* per arXiv id the hit last passed to insert_hits and how often one was;
    \* the argument of the last _mark_updated
    last_call, last_ingested, ingest_count, last_key,
    \* one call of the retrying query_mardi_kg (tasks/mardi_kg_query.py):
    \* position, arguments, loop variable, last_exception, response data,
    \* outcome, and the requests and sleeps it performed, in order
    q_pc, q_in, attempt, last_exception, data, q_out, q_trace,
    \* the pipeline: runs started, position of the main thread, the results of
    \* the last process_pwc_dump and link_repos_to_mardi_kg, the dump file and
    \* the configuration
    run, pc, ingest_result, pub_result, dump, batch_size, max_workers,
    \* process_pwc_dump: its locals, the futures of the current batch and the
    \* futures already taken from as_completed
    existing_ids, skip_count, papers_to_process, batch_count, fut, consumed, batch_hits,
    \* insert_hits in progress: the connection's uncommitted view and the loop
    \* position
    txn, insert_idx,
    \* link_repos_to_mardi_kg: the loaded hits, their futures, and the futures
    \* already taken from as_completed; the remote graph
    queue, pfut, pconsumed, kg,
    \* history: the table when process_pwc_dump started and when the current
    \* batch started, the enrichment calls started and failed in this call of
    \* process_pwc_dump, the remote writes attempted in this call of
    \* link_repos_to_mardi_kg, and the keys written by earlier calls
    start_table, batch_table, started, failed_calls, write_log, written_before,
    \* one application of a pure function: position, arguments, result
    f_pc, f_in, f_out,
    \* extract_links.main: position of the main thread, the dump file, the
    \* results file, the locals data (with results and hit_counter) and
    \* papers_to_process, the futures and the futures already taken from
    \* as_completed; history: the dump position of each collected paper, the
    \* runs started, and the dump positions whose future some run has taken
    l_pc, l_dump, l_file, l_data, l_papers, l_fut, l_consumed,
    l_entries, l_runs, l_processed

storeVars == <<has_table, hits, clock>>
ghostVars == <<last_call, last_ingested, ingest_count, last_key>>
queryVars == <<q_pc, q_in, attempt, last_exception, data, q_out, q_trace>>
flowVars == <<run, pc, ingest_result, pub_result, dump, batch_size, max_workers>>
ingestVars == <<existing_ids, skip_count, papers_to_process, batch_count, fut, consumed,
                batch_hits, txn, insert_idx>>
pubVars == <<queue, pfut, pconsumed, kg>>
histVars == <<start_table, batch_table, started, failed_calls, write_log, written_before>>
pipeVars == <<flowVars, ingestVars, pubVars, histVars>>
pureVars == <<f_pc, f_in, f_out>>
legacyVars == <<l_pc, l_dump, l_file, l_data, l_papers, l_fut, l_consumed,
                l_entries, l_runs, l_processed>>
vars == <<storeVars, ghostVars, queryVars, pipeVars, pureVars, legacyVars>>

\* Values of the variables a specification does not use.
GhostIdle ==
    /\ last_call = "none"
    /\ last_ingested = [k \in ArxivIds |-> {}]
    /\ ingest_count = [k \in ArxivIds |-> 0]
    /\ last_key = None

QueryIdle ==
    /\ q_pc = "idle"
    /\ q_in = [arxiv_id |-> None, paper |-> << >>, max_retries |-> 0]
    /\ attempt = 0
    /\ last_exception = NoException
    /\ data = << >>
    /\ q_out = [kind |-> "none", value |-> << >>]
    /\ q_trace = << >>

PureIdle ==
    /\ f_pc = "idle"
    /\ f_in = [fn |-> "none"]
    /\ f_out = << >>

\* The locals of process_pwc_dump and insert_hits outside a call.
IngestIdle ==
    /\ existing_ids = {}
    /\ skip_count = 0
    /\ papers_to_process = << >>
    /\ batch_count = 0
    /\ fut = << >>
    /\ consumed = {}
    /\ batch_hits = << >>
    /\ txn = {}
    /\ insert_idx = 0

\* The locals of link_repos_to_mardi_kg outside a call.
PubIdle ==
    /\ queue = {}
    /\ pfut = << >>
    /\ pconsumed = {}

\* The results file before the first save.
NoFile == << >>

\* What load_existing_results returns when there is no results file.
FreshResults == [total_hits |-> 0, last_processed_arxiv_id |-> None, hits |-> << >>]

LegacyIdle ==
    /\ l_pc = "idle"
    /\ l_dump = << >>
    /\ l_file = NoFile
    /\ l_data = FreshResults
    /\ l_papers = << >>
    /\ l_fut = << >>
    /\ l_consumed = {}
    /\ l_entries = << >>
    /\ l_runs = 0
    /\ l_processed = {}

PipeIdle ==
    /\ run = 0
    /\ pc = "idle"
    /\ ingest_result = "none"
    /\ pub_result = "none"
    /\ dump = << >>
    /\ batch_size = 1
    /\ max_workers = 1
    /\ IngestIdle
    /\ PubIdle
    /\ kg = {}
    /\ start_table = {}
    /\ batch_table = {}
    /\ started = {}
    /\ failed_calls = {}
    /\ write_log = {}
    /\ written_before = {}

\* ------------------------------------------- store-level specification
\* Papers that pass the `if not arxiv_id: continue` filter of the scan.
KeyedPapers == {p \in Papers : p.paper_arxiv_id \in ArxivIds}

\* The responses the store-level and the pipeline specification draw from.
IndexResponses == { << >>, <<EntryQ1>>, <<EntryQ1, EntryQ12>> }

\* What one enrichment call can return.
QueryResults == {BuildHits(p.paper_arxiv_id, p, r) : p \in KeyedPapers, r \in IndexResponses}

\* The hit lists the dispatcher can pass to insert_hits: the results of the
\* calls of one batch, concatenated in completion order.
HitLists == QueryResults \cup {a \o b : a \in QueryResults, b \in QueryResults}

\* Variant that creates the table anew.
DropAndCreate(exists, table) == {}
\* CREATE TABLE IF NOT EXISTS hits: an existing table keeps its rows.
CreateTableIfNotExists(exists, table) == IF exists THEN table ELSE {}

\* init_db on a new or existing database file.
InitDb ==
    /\ has_table' = TRUE
    /\ hits' = CreateTableIfNotExists(has_table, hits)
    /\ last_call' = "init_db"
    /\ UNCHANGED <<clock, last_ingested, ingest_count, last_key, queryVars, pipeVars, pureVars, legacyVars>>

\* Ghost update: the hits of `hs`, in order, recorded per arXiv id.
RECURSIVE Record(_, _)
Record(g, hs) ==
    IF hs = << >> THEN g
    ELSE Record([g EXCEPT ![Head(hs).arxiv_id] = {Head(hs)}], Tail(hs))

RECURSIVE Count(_, _)
Count(c, hs) ==
    IF hs = << >> THEN c
    ELSE Count([c EXCEPT ![Head(hs).arxiv_id] = IF @ < 2 THEN @ + 1 ELSE @], Tail(hs))

\* insert_hits(hs): the loop and the commit, as one call.
InsertHits(hs) ==
    /\ has_table
    /\ clock < MaxClock
    /\ clock' = clock + 1
    /\ hits' = InsertLoop(hits, hs, clock')
    /\ last_call' = "insert_hits"
    /\ last_ingested' = Record(last_ingested, hs)
    /\ ingest_count' = Count(ingest_count, hs)
    /\ UNCHANGED <<has_table, last_key, queryVars, pipeVars, pureVars, legacyVars>>

\* _mark_updated(arxiv_id), the UPDATE succeeding.
MarkUpdatedCall(arxiv_id) ==
    /\ has_table
    /\ hits' = MarkUpdated(hits, arxiv_id)
    /\ last_call' = "_mark_updated"
    /\ last_key' = arxiv_id
    /\ UNCHANGED <<has_table, clock, last_ingested, ingest_count, queryVars, pipeVars, pureVars, legacyVars>>

StoreInit ==
    /\ has_table = FALSE
    /\ hits = {}
    /\ clock = 0
    /\ GhostIdle
    /\ QueryIdle
    /\ PipeIdle
    /\ PureIdle
    /\ LegacyIdle

StoreNext ==
    \/ InitDb
    \/ \E hs \in HitLists : InsertHits(hs)
    \/ \E k \in ArxivIds : MarkUpdatedCall(k)

SpecStore == StoreInit /\ [][StoreNext]_vars

\* Rows of the table with primary key k.
RowsOf(table, k) == {r \in table : r.arxiv_id = k}

\* Primary keys of the rows flagged as published.
Published(table) == {r.arxiv_id : r \in {x \in table : x.updated_in_mardi_kg = 1}}

\* C1: the hits table holds at most one row per arxiv_id, and once an
\* arxiv_id has been ingested (in particular, ingested twice) its single row
\* carries the field values of the latest hit ingested for it.
C1_IdempotentUpsert ==
    \A k \in ArxivIds :
        /\ Cardinality(RowsOf(hits, k)) <= 1
        /\ \A h \in last_ingested[k] :
              /\ Cardinality(RowsOf(hits, k)) = 1
              /\ \A r \in RowsOf(hits, k) : HitPart(r) = h

\* C1 witness: some arxiv_id was ingested twice and its row holds a
\* repository other than the one another dump entry of that paper names.
C1_Witness ==
    \E k \in ArxivIds :
        /\ ingest_count[k] >= 2
        /\ \E r \in RowsOf(hits, k) : r.repo_url = None /\ r.timestamp_added_to_db = <<2>>

\* C2: insert_hits with freshly produced hits never takes a row's publish
\* flag from 1 back to 0.
C2_NoFlagRegression ==
    [][last_call' = "insert_hits" => Published(hits) \subseteq Published(hits')]_vars

\* C15: _mark_updated(key) sets the flag of the row with that arxiv_id and
\* changes nothing else: every other row and every other column of the row
\* stay as they were, no row is added or removed, and with no row for the key
\* the table is unchanged.
C15_MarkFrame ==
    [][last_call' = "_mark_updated" =>
          /\ \A r \in hits : r.arxiv_id # last_key' => r \in hits'
          /\ \A r \in hits : r.arxiv_id = last_key' =>
                [r EXCEPT !.updated_in_mardi_kg = 1] \in hits'
          /\ Cardinality(hits') = Cardinality(hits)
          /\ RowsOf(hits, last_key') = {} => hits' = hits]_vars

\* C15 witness: _mark_updated was called on a table of two rows and exactly
\* the row of its key is flagged.
C15_Witness ==
    /\ last_call = "_mark_updated"
    /\ Cardinality(hits) = 2
    /\ Published(hits) = {last_key}

\* C16: a row flagged as published has a publication timestamp.
C16_PublicationTimestamp ==
    \A r \in hits : r.updated_in_mardi_kg = 1 => r.timestamp_added_to_mardikg # NullTs

\* C28: init_db on a store that has the table leaves every row as it was.
C28_InitIdempotent ==
    [][(last_call' = "init_db" /\ has_table) => (hits' = hits /\ has_table')]_vars

\* C28 witness: init_db was called on a table that holds a published row.
C28_Witness ==
    /\ last_call = "init_db"
    /\ Published(hits) # {}

\* ------------------------------ the retrying enrichment client, one call
\* `if attempt < max_retries:` before time.sleep(retry_delay)
ShouldSleepAlways(n, max_retries) == TRUE
ShouldSleep(n, max_retries) == n < max_retries

\* `raise last_exception`: raising None is a TypeError.
Raise(e) == IF e = NoException THEN <<"TypeError">> ELSE e

\* The loop header `for attempt in range(1, max_retries + 1)` yields a value.
QNextAttempt ==
    /\ q_pc = "loop"
    /\ attempt < q_in.max_retries
    /\ attempt' = attempt + 1
    /\ q_pc' = "request"
    /\ UNCHANGED <<q_in, last_exception, data, q_out, q_trace, storeVars, ghostVars, pipeVars, pureVars, legacyVars>>

\* The loop is exhausted without a break: the else clause raises.
QExhausted ==
    /\ q_pc = "loop"
    /\ attempt >= q_in.max_retries
    /\ q_pc' = "raised"
    /\ q_out' = [kind |-> "raised", value |-> Raise(last_exception)]
    /\ UNCHANGED <<q_in, attempt, last_exception, data, q_trace, storeVars, ghostVars, pipeVars, pureVars, legacyVars>>

\* requests.post, raise_for_status and response.json() succeed: break.
QRequestOk(response) ==
    /\ q_pc = "request"
    /\ data' = response
    /\ q_trace' = Append(q_trace, "request_ok")
    /\ q_pc' = "build"
    /\ UNCHANGED <<q_in, attempt, last_exception, q_out, storeVars, ghostVars, pipeVars, pureVars, legacyVars>>

\* The request raises requests.RequestException.
QRequestFail ==
    /\ q_pc = "request"
    /\ last_exception' = <<"RequestException", attempt>>
    /\ q_trace' = Append(q_trace, "request_failed")
    /\ q_pc' = IF ShouldSleep(attempt, q_in.max_retries) THEN "sleep" ELSE "loop"
    /\ UNCHANGED <<q_in, attempt, data, q_out, storeVars, ghostVars, pipeVars, pureVars, legacyVars>>

\* time.sleep(retry_delay)
QSleep ==
    /\ q_pc = "sleep"
    /\ q_trace' = Append(q_trace, "sleep")
    /\ q_pc' = "loop"
    /\ UNCHANGED <<q_in, attempt, last_exception, data, q_out, storeVars, ghostVars, pipeVars, pureVars, legacyVars>>

\* The result list is built from the response and returned.
QBuild ==
    /\ q_pc = "build"
    /\ q_out' = [kind |-> "returned", value |-> BuildHits(q_in.arxiv_id, q_in.paper, data)]
    /\ q_pc' = "returned"
    /\ UNCHANGED <<q_in, attempt, last_exception, data, q_trace, storeVars, ghostVars, pipeVars, pureVars, legacyVars>>

QueryInit ==
    /\ has_table = FALSE
    /\ hits = {}
    /\ clock = 0
    /\ GhostIdle
    /\ PipeIdle
    /\ PureIdle
    /\ LegacyIdle
    /\ q_pc = "loop"
    /\ q_in \in {[arxiv_id |-> p.paper_arxiv_id, paper |-> p, max_retries |-> m] :
                    p \in KeyedPapers, m \in 0..MaxRetries}
    /\ attempt = 0
    /\ last_exception = NoException
    /\ data = << >>
    /\ q_out = [kind |-> "none", value |-> << >>]
    /\ q_trace = << >>

QueryNext ==
    \/ QNextAttempt
    \/ QExhausted
    \/ \E response \in Responses : QRequestOk(response)
    \/ QRequestFail
    \/ QSleep
    \/ QBuild

SpecQuery == QueryInit /\ [][QueryNext]_vars

\* The requests of a trace, and the failed ones.
RequestsIn(tr) == {i \in 1..Len(tr) : tr[i] \in {"request_ok", "request_failed"}}
FailuresIn(tr) == {i \in 1..Len(tr) : tr[i] = "request_failed"}

\* C6: a response with zero result entries yields exactly one hit, with qid
\* and title None and the other fields those of the call's arguments; a
\* response with at least one entry yields one hit per entry, no placeholder.
C6_NoMatchPlaceholder ==
    q_out.kind = "returned" =>
        /\ data = << >> =>
              /\ Len(q_out.value) = 1
              /\ q_out.value[1].qid = NoQid
              /\ q_out.value[1].title = None
              /\ q_out.value[1].arxiv_id = q_in.arxiv_id
              /\ q_out.value[1].repo_url = q_in.paper.repo_url
              /\ q_out.value[1].is_official = q_in.paper.is_official
              /\ q_out.value[1].mentioned_in_paper = q_in.paper.mentioned_in_paper
              /\ q_out.value[1].mentioned_in_github = q_in.paper.mentioned_in_github
              /\ q_out.value[1].pwc_page = q_in.paper.paper_url
        /\ data # << >> =>
              /\ Len(q_out.value) = Len(data)
              /\ \A i \in 1..Len(data) :
                    q_out.value[i].title = Get(data[i], "title", "(no title)")

\* C6 witness: a call returned for a response without result entries.
C6_Witness ==
    /\ q_out.kind = "returned"
    /\ data = << >>
    /\ q_out.value[1].repo_url = "r3"

\* C9: at most max_retries requests; a failed request is followed by a sleep
\* exactly when another attempt follows; a successful request is the last
\* one; the call raises only after max_retries failed requests.
C9_RetryPolicy ==
    /\ Cardinality(RequestsIn(q_trace)) <= q_in.max_retries
    /\ \A i \in 1..Len(q_trace) :
          /\ q_trace[i] = "request_ok" => i = Len(q_trace)
          /\ (q_trace[i] = "request_failed" /\ i < Len(q_trace)) => q_trace[i + 1] = "sleep"
          /\ q_trace[i] = "sleep" => (i > 1 /\ q_trace[i - 1] = "request_failed")
    /\ q_out.kind # "none" => (q_trace = << >> \/ q_trace[Len(q_trace)] # "sleep")
    /\ q_out.kind = "raised" =>
          /\ Cardinality(FailuresIn(q_trace)) = q_in.max_retries
          /\ RequestsIn(q_trace) = FailuresIn(q_trace)
    /\ q_out.kind = "returned" => q_trace[Len(q_trace)] = "request_ok"
    /\ (q_pc = "request" /\ attempt > 1) =>
          (q_trace[Len(q_trace)] = "sleep" /\ Cardinality(FailuresIn(q_trace)) = attempt - 1)

\* C9 witness: a call returned after two failed requests and two sleeps, and
\* a call raised after max_retries failed requests.
C9_Witness ==
    \/ /\ q_out.kind = "returned"
       /\ q_trace = <<"request_failed", "sleep", "request_failed", "sleep", "request_ok">>
    \/ /\ q_out.kind = "raised"
       /\ q_in.max_retries = 2
       /\ q_trace = <<"request_failed", "sleep", "request_failed">>

\* C36: a call that raises raises the request exception of its last attempt,
\* which is attempt number max_retries, and a call returns a list only after
\* a successful request.
C36_RaisesLastException ==
    /\ q_out.kind = "raised" => q_out.value = <<"RequestException", q_in.max_retries>>
    /\ q_out.kind = "returned" => \E i \in 1..Len(q_trace) : q_trace[i] = "request_ok"

\* C18: whatever the response, the returned list holds exactly one hit for
\* the arxiv_id of the call.
C18_OneHitPerKey ==
    q_out.kind = "returned" =>
        Cardinality({i \in 1..Len(q_out.value) : q_out.value[i].arxiv_id = q_in.arxiv_id}) = 1

\* ---------------------------------------------------------- the pipeline
\* Python truthiness of a string-typed value.
Truthy(x) == x \notin {None, ""}

\* One iteration of the scan loop of process_pwc_dump over the dump.
ScanStepDedup(acc, paper, existing) ==
    LET arxiv_id == Get(paper, "paper_arxiv_id", None) IN
    IF ~Truthy(arxiv_id) THEN acc
    ELSE IF arxiv_id \in existing
              \/ \E i \in 1..Len(acc.papers_to_process) : acc.papers_to_process[i][1] = arxiv_id
         THEN [acc EXCEPT !.skip_count = @ + 1]
         ELSE [acc EXCEPT !.papers_to_process = Append(@, <<arxiv_id, paper>>)]
ScanStep(acc, paper, existing) ==
    LET arxiv_id == Get(paper, "paper_arxiv_id", None) IN
    IF ~Truthy(arxiv_id) THEN acc
    ELSE IF arxiv_id \in existing
         THEN [acc EXCEPT !.skip_count = @ + 1]
         ELSE [acc EXCEPT !.papers_to_process = Append(@, <<arxiv_id, paper>>)]

RECURSIVE Scan(_, _, _)
\* The scan loop: the papers collected and the number skipped.
Scan(acc, all_papers, existing) ==
    IF all_papers = << >> THEN acc
    ELSE Scan(ScanStep(acc, Head(all_papers), existing), Tail(all_papers), existing)

\* _batchify(items, size): the k-th batch (k = 1, 2, ...) it yields.
Batch(items, size, k) ==
    SubSeq(items, (k - 1) * size + 1, IF k * size < Len(items) THEN k * size ELSE Len(items))

\* Variant that yields full batches only.
HasFullBatch(items, size, k) == k * size <= Len(items)
\* Whether _batchify yields a k-th batch.
HasBatch(items, size, k) == (k - 1) * size < Len(items)

\* The batch being processed.
CurrentBatch == Batch(papers_to_process, batch_size, batch_count)

Running(f) == {i \in 1..Len(f) : f[i].st = "running"}
Finished(f) == {i \in 1..Len(f) : f[i].st \in {"ok", "failed"}}

\* The committed table as other connections see it after one execute of an
\* open transaction: unchanged until the commit.
VisibleAutocommit(committed, uncommitted) == uncommitted
VisibleAfterExecute(committed, uncommitted) == committed

\* What the exception handler of the as_completed loop does after logging:
\* `raise` leaves the loop.
AfterExceptionContinue(position) == position
AfterException(position) == "abort"

\* The as_completed loop ends, and the `with` block is left, when every future
\* of the batch has been yielded.
AnyTaken(futures, taken) == taken # {}
AllTaken(futures, taken) == taken = 1..Len(futures)

\* ThreadPoolExecutor(max_workers=max_workers): a queued call starts when
\* fewer than max_workers pool threads are busy.
PoolUnbounded(futures, workers) == TRUE
PoolHasIdleThread(futures, workers) == Cardinality(Running(futures)) < workers

\* `if not Path(json_input).exists(): raise FileNotFoundError`: the check is
\* made once, before the dump is opened and scanned.
DumpCheckedLazily(position) == position \in {"ingest", "batch"}
DumpChecked(position) == position = "ingest"

\* process_pwc_dump.submit(...).wait(): the flow goes on to the publisher
\* when process_pwc_dump has returned or raised.
IngestionSubmitted(position) ==
    position \in {"ingest", "batch", "collect", "abort", "insert", "link"}
IngestionFinished(position) == position = "link"

\* The locals of process_pwc_dump are gone once it has returned or raised.
IngestReset ==
    /\ existing_ids' = {}
    /\ skip_count' = 0
    /\ papers_to_process' = << >>
    /\ batch_count' = 0
    /\ fut' = << >>
    /\ consumed' = {}
    /\ batch_hits' = << >>
    /\ txn' = {}
    /\ insert_idx' = 0

\* process_papers starts: init_db.submit(...).wait()
StartRun ==
    /\ pc = "idle"
    /\ run < MaxRuns
    /\ run' = run + 1
    /\ has_table' = TRUE
    /\ hits' = CreateTableIfNotExists(has_table, hits)
    /\ pc' = "ingest"
    /\ ingest_result' = "none"
    /\ pub_result' = "none"
    /\ started' = {}
    /\ failed_calls' = {}
    /\ start_table' = hits'
    /\ batch_table' = hits'
    /\ UNCHANGED <<clock, dump, batch_size, max_workers, ingestVars, pubVars,
                   write_log, written_before, ghostVars, queryVars,
                   pureVars, legacyVars>>

\* process_pwc_dump up to the batch loop: the existing ids are loaded and the
\* dump is scanned.
LoadAndScan ==
    /\ pc = "ingest"
    /\ existing_ids' = LoadExistingArxivIds(hits)
    /\ LET acc == Scan([papers_to_process |-> << >>, skip_count |-> 0], dump, existing_ids') IN
          /\ papers_to_process' = acc.papers_to_process
          /\ skip_count' = acc.skip_count
    /\ batch_count' = 0
    /\ pc' = "batch"
    /\ UNCHANGED <<storeVars, run, ingest_result, pub_result, dump, batch_size, max_workers,
                   fut, consumed, batch_hits, txn, insert_idx, pubVars, histVars,
                   ghostVars, queryVars,
                   pureVars, legacyVars>>

\* The dump file does not exist: FileNotFoundError.
InputNotFound ==
    /\ DumpChecked(pc)
    /\ ingest_result' = "FileNotFoundError"
    /\ pc' = "link"
    /\ IngestReset
    /\ UNCHANGED <<storeVars, run, pub_result, dump, batch_size, max_workers,
                   pubVars, histVars, ghostVars, queryVars,
                   pureVars, legacyVars>>

\* The batch loop yields the next batch; its calls are submitted to the pool.
DispatchBatch ==
    /\ pc = "batch"
    /\ HasBatch(papers_to_process, batch_size, batch_count + 1)
    /\ batch_count' = batch_count + 1
    /\ batch_hits' = << >>
    /\ fut' = [i \in 1..Len(Batch(papers_to_process, batch_size, batch_count + 1)) |->
                  [st |-> "pending", result |-> << >>, requests |-> 0]]
    /\ consumed' = {}
    /\ batch_table' = hits
    /\ pc' = "collect"
    /\ UNCHANGED <<storeVars, run, ingest_result, pub_result, dump, batch_size, max_workers, existing_ids, skip_count, papers_to_process,
                   txn, insert_idx, pubVars, start_table, started, failed_calls, write_log, written_before,
                   ghostVars, queryVars,
                   pureVars, legacyVars>>

\* The batch loop is exhausted: process_pwc_dump returns.
IngestDone ==
    /\ pc = "batch"
    /\ ~HasBatch(papers_to_process, batch_size, batch_count + 1)
    /\ ingest_result' = "done"
    /\ pc' = "link"
    /\ IngestReset
    /\ UNCHANGED <<storeVars, run, pub_result, dump, batch_size, max_workers,
                   pubVars, histVars, ghostVars, queryVars,
                   pureVars, legacyVars>>

\* A pool thread takes the next queued call (in submission order) and issues
\* its request.
WorkerStart(i) ==
    /\ pc \in {"collect", "abort"}
    /\ fut[i].st = "pending"
    /\ \A j \in 1..(i - 1) : fut[j].st # "pending"
    /\ PoolHasIdleThread(fut, max_workers)
    /\ fut' = [fut EXCEPT ![i].st = "running", ![i].requests = @ + 1]
    /\ started' = started \cup {[batch |-> batch_count, arxiv_id |-> CurrentBatch[i][1]]}
    /\ UNCHANGED <<storeVars, flowVars, existing_ids, skip_count, papers_to_process,
                   batch_count, consumed, batch_hits, txn, insert_idx, pubVars,
                   start_table, batch_table, failed_calls, write_log, written_before, ghostVars, queryVars,
                   pureVars, legacyVars>>

\* The request of call i succeeds: fetch.query_mardi_kg returns its results.
WorkerOk(i, response) ==
    /\ pc \in {"collect", "abort"}
    /\ fut[i].st = "running"
    /\ fut' = [fut EXCEPT ![i].st = "ok",
                          ![i].result = BuildHits(CurrentBatch[i][1], CurrentBatch[i][2], response)]
    /\ UNCHANGED <<storeVars, flowVars, existing_ids, skip_count, papers_to_process,
                   batch_count, consumed, batch_hits, txn, insert_idx, pubVars, histVars,
                   ghostVars, queryVars,
                   pureVars, legacyVars>>

\* The request of call i raises: fetch.query_mardi_kg raises with it.
WorkerFail(i) ==
    /\ pc \in {"collect", "abort"}
    /\ fut[i].st = "running"
    /\ fut' = [fut EXCEPT ![i].st = "failed"]
    /\ failed_calls' = failed_calls \cup
          {[batch |-> batch_count, arxiv_id |-> CurrentBatch[i][1], requests |-> fut[i].requests]}
    /\ UNCHANGED <<storeVars, flowVars, existing_ids, skip_count, papers_to_process,
                   batch_count, consumed, batch_hits, txn, insert_idx, pubVars,
                   start_table, batch_table, started, write_log, written_before, ghostVars, queryVars,
                   pureVars, legacyVars>>

\* as_completed yields the finished future i; its result is aggregated.
CollectOk(i) ==
    /\ pc = "collect"
    /\ i \notin consumed
    /\ fut[i].st = "ok"
    /\ consumed' = consumed \cup {i}
    /\ batch_hits' = IF fut[i].result # << >> THEN batch_hits \o fut[i].result ELSE batch_hits
    /\ UNCHANGED <<storeVars, flowVars, existing_ids, skip_count, papers_to_process,
                   batch_count, fut, txn, insert_idx, pubVars, histVars, ghostVars, queryVars,
                   pureVars, legacyVars>>

\* as_completed yields the future i, whose call raised: logged and re-raised.
CollectFailed(i) ==
    /\ pc = "collect"
    /\ i \notin consumed
    /\ fut[i].st = "failed"
    /\ consumed' = consumed \cup {i}
    /\ pc' = AfterException(pc)
    /\ UNCHANGED <<storeVars, run, ingest_result, pub_result, dump, batch_size, max_workers,
                   existing_ids, skip_count, papers_to_process, batch_count, fut, batch_hits,
                   txn, insert_idx, pubVars, histVars, ghostVars, queryVars,
                   pureVars, legacyVars>>

\* The exception leaves the `with` block once the pool has shut down, every
\* submitted call having run: process_pwc_dump raises.
Abort ==
    /\ pc = "abort"
    /\ Finished(fut) = 1..Len(fut)
    /\ ingest_result' = "raised"
    /\ pc' = "link"
    /\ IngestReset
    /\ UNCHANGED <<storeVars, run, pub_result, dump, batch_size, max_workers,
                   pubVars, histVars, ghostVars, queryVars,
                   pureVars, legacyVars>>

\* Every future was taken and the `with` block is left: with hits to insert,
\* insert_hits opens its connection; with none, the next batch follows.
EndOfBatch ==
    /\ pc = "collect"
    /\ AllTaken(fut, consumed)
    /\ IF batch_hits # << >>
       THEN /\ clock' = clock + 1
            /\ txn' = hits
            /\ insert_idx' = 1
            /\ pc' = "insert"
       ELSE /\ pc' = "batch"
            /\ UNCHANGED <<clock, txn, insert_idx, pureVars, legacyVars>>
    /\ UNCHANGED <<has_table, hits, run, ingest_result, pub_result, dump, batch_size,
                   max_workers, existing_ids, skip_count, papers_to_process, batch_count,
                   fut, consumed, batch_hits, pubVars, histVars, ghostVars, queryVars,
                   pureVars, legacyVars>>

\* One iteration of the loop of insert_hits: the INSERT OR REPLACE runs in
\* the connection's open transaction.
InsertExecute ==
    /\ pc = "insert"
    /\ insert_idx <= Len(batch_hits)
    /\ txn' = InsertOrReplace(txn, PrepareHit(batch_hits[insert_idx], clock))
    /\ hits' = VisibleAfterExecute(hits, txn')
    /\ insert_idx' = insert_idx + 1
    /\ UNCHANGED <<has_table, clock, flowVars, existing_ids, skip_count, papers_to_process,
                   batch_count, fut, consumed, batch_hits, pubVars, histVars, ghostVars,
                   queryVars,
                   pureVars, legacyVars>>

\* conn.commit(): the transaction becomes visible; the batch is done.
InsertCommit ==
    /\ pc = "insert"
    /\ insert_idx > Len(batch_hits)
    /\ hits' = txn
    /\ pc' = "batch"
    /\ UNCHANGED <<has_table, clock, run, ingest_result, pub_result, dump, batch_size,
                   max_workers, ingestVars, pubVars, histVars, ghostVars, queryVars,
                   pureVars, legacyVars>>

\* The process is terminated during process_pwc_dump: its memory is lost, an
\* open transaction is rolled back.
Crash ==
    /\ pc \in {"ingest", "batch", "collect", "abort", "insert"}
    /\ pc' = "idle"
    /\ ingest_result' = "crashed"
    /\ IngestReset
    /\ UNCHANGED <<storeVars, run, pub_result, dump, batch_size, max_workers, pubVars,
                   histVars, ghostVars, queryVars,
                   pureVars, legacyVars>>

\* ------------------------------------------------------------ the publisher
\* Variant that tests mentioned_in_github first.
HarvestedFromGithubFirst(hit) ==
    IF hit.mentioned_in_github THEN "repository README"
    ELSE IF hit.mentioned_in_paper THEN "publication"
    ELSE "unknown"
\* The provenance label of a hit.
HarvestedFrom(hit) ==
    IF hit.mentioned_in_paper THEN "publication"
    ELSE IF hit.mentioned_in_github THEN "repository README"
    ELSE "unknown"

\* `if qid and repo_url and pwc_url:`
Linkable(hit) == hit.qid # NoQid /\ Truthy(hit.repo_url) /\ Truthy(hit.pwc_page)

\* _update_kg_item_with_repo: the P1687 statement of the item is replaced
\* (ActionIfExists.REPLACE_ALL) and the item is written.
UpdateKgItemWithRepo(graph, hit) ==
    {st \in graph : st.qid # hit.qid} \cup
    {[qid |-> hit.qid, value |-> hit.repo_url, reference_url |-> hit.pwc_page,
      harvested_from |-> HarvestedFrom(hit)]}

\* The loaded hit with primary key k.
QueuedHit(k) == CHOOSE h \in queue : h.arxiv_id = k

\* The flag of the ledger row with primary key k.
FlagOf(table, k) == IF k \in Published(table) THEN 1 ELSE 0

\* Number of pool threads of link_repos_to_mardi_kg.
PubWorkers == 10

\* The calls of _process_hit between the remote write and the ledger update.
PubRunning == {k \in DOMAIN pfut : pfut[k] = "written"}
PubFinished == {k \in DOMAIN pfut : pfut[k] \in {"done", "failed"}}

\* The ledger after _update_kg_item_with_repo has raised in _process_hit: the
\* exception leaves the function before _mark_updated, the table is untouched.
MarkDespiteRaise(table, k) == MarkUpdated(table, k)
AfterWriteRaised(table, k) == table

\* History kept per call: process_pwc_dump is over and a new call of
\* link_repos_to_mardi_kg starts.
HistoryReset ==
    /\ start_table' = {}
    /\ batch_table' = {}
    /\ started' = {}
    /\ failed_calls' = {}
    /\ ingest_result' = "none"
    /\ written_before' = written_before \cup {w.arxiv_id : w \in {x \in write_log : x.ok}}
    /\ write_log' = {}

\* The hits link_repos_to_mardi_kg holds when it returns for want of
\* credentials: the return precedes _load_hits.
QueueLoadedFirst(table) == LoadHits(table)
QueueWithoutCredentials(table) == {}

\* What becomes of a call of _process_hit whose _mark_updated met a database
\* error: the error is caught and logged, the call returns.
MarkErrorRaised(state) == "failed"
MarkErrorSwallowed(state) == "done"

\* `papers_processed = batch_count * batch_size`
PapersProcessed(count, size) == count * size

\* link_repos_to_mardi_kg finds no credentials and returns.
PubNoCreds ==
    /\ IngestionFinished(pc)
    /\ pub_result' = "no_credentials"
    /\ pc' = "idle"
    /\ queue' = QueueWithoutCredentials(hits)
    /\ HistoryReset
    /\ UNCHANGED <<storeVars, run, dump, batch_size, max_workers, ingestVars,
                   pfut, pconsumed, kg, ghostVars, queryVars,
                   pureVars, legacyVars>>

\* process_papers submits link_repos_to_mardi_kg with max_workers, a parameter
\* the task does not have: the call fails before the task body runs.
PubBindError ==
    /\ IngestionFinished(pc)
    /\ pub_result' = "bind_error"
    /\ pc' = "idle"
    /\ HistoryReset
    /\ UNCHANGED <<storeVars, run, dump, batch_size, max_workers, ingestVars,
                   pubVars, ghostVars, queryVars, pureVars, legacyVars>>

\* link_repos_to_mardi_kg loads the pending hits and submits one call each.
PubLoad ==
    /\ IngestionFinished(pc)
    /\ queue' = LoadHits(hits)
    /\ pfut' = [k \in {h.arxiv_id : h \in queue'} |-> "pending"]
    /\ pconsumed' = {}
    /\ pc' = "pub_collect"
    /\ HistoryReset
    /\ UNCHANGED <<storeVars, run, pub_result, dump, batch_size, max_workers,
                   ingestVars, kg, ghostVars, queryVars,
                   pureVars, legacyVars>>

\* A pool thread runs _process_hit for the hit with key k, which skips a hit
\* with a missing field.
PubSkip(k) ==
    /\ pc \in {"pub_collect", "pub_abort"}
    /\ pfut[k] = "pending"
    /\ Cardinality(PubRunning) < PubWorkers
    /\ ~Linkable(QueuedHit(k))
    /\ pfut' = [pfut EXCEPT ![k] = "done"]
    /\ UNCHANGED <<storeVars, flowVars, ingestVars, queue, pconsumed, kg, histVars,
                   ghostVars, queryVars,
                   pureVars, legacyVars>>

\* A pool thread runs _process_hit for the hit with key k up to the remote
\* write, which succeeds.
PubWriteOk(k) ==
    /\ pc \in {"pub_collect", "pub_abort"}
    /\ pfut[k] = "pending"
    /\ Cardinality(PubRunning) < PubWorkers
    /\ Linkable(QueuedHit(k))
    /\ kg' = UpdateKgItemWithRepo(kg, QueuedHit(k))
    /\ write_log' = write_log \cup
          {[arxiv_id |-> k, flag |-> FlagOf(hits, k), ok |-> TRUE,
            n |-> Cardinality(write_log) + 1]}
    /\ pfut' = [pfut EXCEPT ![k] = "written"]
    /\ UNCHANGED <<storeVars, flowVars, ingestVars, queue, pconsumed, start_table,
                   batch_table, started, failed_calls, written_before, ghostVars, queryVars,
                   pureVars, legacyVars>>

\* A pool thread runs _process_hit for the hit with key k; the remote write
\* raises, and so does _process_hit.
PubWriteFail(k) ==
    /\ pc \in {"pub_collect", "pub_abort"}
    /\ pfut[k] = "pending"
    /\ Cardinality(PubRunning) < PubWorkers
    /\ Linkable(QueuedHit(k))
    /\ write_log' = write_log \cup
          {[arxiv_id |-> k, flag |-> FlagOf(hits, k), ok |-> FALSE,
            n |-> Cardinality(write_log) + 1]}
    /\ pfut' = [pfut EXCEPT ![k] = "failed"]
    /\ hits' = AfterWriteRaised(hits, k)
    /\ UNCHANGED <<has_table, clock, flowVars, ingestVars, queue, pconsumed, kg, start_table,
                   batch_table, started, failed_calls, written_before, ghostVars, queryVars,
                   pureVars, legacyVars>>

\* _mark_updated: the UPDATE is committed.
PubMarkOk(k) ==
    /\ pc \in {"pub_collect", "pub_abort"}
    /\ pfut[k] = "written"
    /\ hits' = MarkUpdated(hits, k)
    /\ pfut' = [pfut EXCEPT ![k] = "done"]
    /\ UNCHANGED <<has_table, clock, flowVars, ingestVars, queue, pconsumed, kg, histVars,
                   ghostVars, queryVars,
                   pureVars, legacyVars>>

\* _mark_updated: the database raises (for instance "database is locked" with
\* other pool threads writing); the exception is logged and swallowed.
PubMarkFail(k) ==
    /\ pc \in {"pub_collect", "pub_abort"}
    /\ pfut[k] = "written"
    /\ pfut' = [pfut EXCEPT ![k] = MarkErrorSwallowed(@)]
    /\ UNCHANGED <<storeVars, flowVars, ingestVars, queue, pconsumed, kg, histVars,
                   ghostVars, queryVars,
                   pureVars, legacyVars>>

\* as_completed yields a future whose call returned.
PubCollectOk(k) ==
    /\ pc = "pub_collect"
    /\ k \notin pconsumed
    /\ pfut[k] = "done"
    /\ pconsumed' = pconsumed \cup {k}
    /\ UNCHANGED <<storeVars, flowVars, ingestVars, queue, pfut, kg, histVars, ghostVars,
                   queryVars,
                   pureVars, legacyVars>>

\* as_completed yields a future whose call raised: logged and re-raised.
PubCollectFailed(k) ==
    /\ pc = "pub_collect"
    /\ k \notin pconsumed
    /\ pfut[k] = "failed"
    /\ pconsumed' = pconsumed \cup {k}
    /\ pc' = "pub_abort"
    /\ UNCHANGED <<storeVars, run, ingest_result, pub_result, dump, batch_size, max_workers,
                   ingestVars, queue, pfut, kg, histVars, ghostVars, queryVars,
                   pureVars, legacyVars>>

\* Every future was taken: link_repos_to_mardi_kg returns.
PubDone ==
    /\ pc = "pub_collect"
    /\ pconsumed = DOMAIN pfut
    /\ pub_result' = "done"
    /\ pc' = "idle"
    /\ queue' = {}
    /\ pfut' = << >>
    /\ pconsumed' = {}
    /\ UNCHANGED <<storeVars, run, ingest_result, dump, batch_size, max_workers, ingestVars,
                   kg, histVars, ghostVars, queryVars,
                   pureVars, legacyVars>>

\* The exception leaves the `with` block once every submitted call has run:
\* link_repos_to_mardi_kg raises.
PubAbort ==
    /\ pc = "pub_abort"
    /\ PubFinished = DOMAIN pfut
    /\ pub_result' = "raised"
    /\ pc' = "idle"
    /\ queue' = {}
    /\ pfut' = << >>
    /\ pconsumed' = {}
    /\ UNCHANGED <<storeVars, run, ingest_result, dump, batch_size, max_workers, ingestVars,
                   kg, histVars, ghostVars, queryVars,
                   pureVars, legacyVars>>

\* ------------------------------------------------ pipeline specification
\* The dumps explored: every sequence of at most MaxDump entries.
RECURSIVE Dumps(_)
Dumps(n) ==
    IF n = 0 THEN {<< >>}
    ELSE Dumps(n - 1) \cup {Append(d, p) : d \in {x \in Dumps(n - 1) : Len(x) = n - 1}, p \in Papers}

Init ==
    /\ has_table = FALSE
    /\ hits = {}
    /\ clock = 0
    /\ GhostIdle
    /\ QueryIdle
    /\ PureIdle
    /\ LegacyIdle
    /\ run = 0
    /\ pc = "idle"
    /\ ingest_result = "none"
    /\ pub_result = "none"
    /\ dump \in Dumps(MaxDump)
    /\ \E c \in Configs : batch_size = c[1] /\ max_workers = c[2]
    /\ IngestIdle
    /\ PubIdle
    /\ kg = {}
    /\ start_table = {}
    /\ batch_table = {}
    /\ started = {}
    /\ failed_calls = {}
    /\ write_log = {}
    /\ written_before = {}

Next ==
    \/ StartRun
    \/ LoadAndScan
    \/ InputNotFound
    \/ DispatchBatch
    \/ IngestDone
    \/ \E i \in DOMAIN fut : WorkerStart(i)
    \/ \E i \in DOMAIN fut, response \in IndexResponses : WorkerOk(i, response)
    \/ \E i \in DOMAIN fut : WorkerFail(i)
    \/ \E i \in DOMAIN fut : CollectOk(i)
    \/ \E i \in DOMAIN fut : CollectFailed(i)
    \/ Abort
    \/ EndOfBatch
    \/ InsertExecute
    \/ InsertCommit
    \/ Crash
    \/ PubNoCreds
    \/ PubBindError
    \/ PubLoad
    \/ \E k \in DOMAIN pfut : PubSkip(k)
    \/ \E k \in DOMAIN pfut : PubWriteOk(k)
    \/ \E k \in DOMAIN pfut : PubWriteFail(k)
    \/ \E k \in DOMAIN pfut : PubMarkOk(k)
    \/ \E k \in DOMAIN pfut : PubMarkFail(k)
    \/ \E k \in DOMAIN pfut : PubCollectOk(k)
    \/ \E k \in DOMAIN pfut : PubCollectFailed(k)
    \/ PubDone
    \/ PubAbort

Spec == Init /\ [][Next]_vars

\* --------------------------------------------------- pipeline properties
\* max_retries of the retrying query_mardi_kg, by default.
DefaultMaxRetries == 5

\* The positions of the main thread inside process_pwc_dump after the scan.
InBatchLoop == pc \in {"batch", "collect", "abort", "insert"}

\* The entries of the dump that carry an arXiv id, and those among them whose
\* id had a row when process_pwc_dump started.
KeyedEntries == {i \in 1..Len(dump) : Truthy(Get(dump[i], "paper_arxiv_id", None))}
PresentEntries == {i \in KeyedEntries : RowsOf(start_table, dump[i].paper_arxiv_id) # {}}

\* The distinct arXiv ids of the dump, and those that had a row at the start.
DumpKeys == {dump[i].paper_arxiv_id : i \in KeyedEntries}
PresentKeys == {k \in DumpKeys : RowsOf(start_table, k) # {}}

C4_ResumeNeverReprocesses ==
    \A s \in started : RowsOf(start_table, s.arxiv_id) = {}

\* C4 witness: a call was started in a run that began with a no-match
\* placeholder row in the table.
C4_Witness ==
    /\ started # {}
    /\ \E r \in start_table : r.qid = NoQid /\ r.title = None

\* C5 as claimed: with N distinct keys in the dump, M of them in the ledger at
\* the start, exactly N - M pairs are collected.
C5_ResumeCountByKeys ==
    InBatchLoop => Len(papers_to_process) = Cardinality(DumpKeys) - Cardinality(PresentKeys)

\* C5 as amended: with N dump entries that carry an arxiv_id, M of them with
\* an arxiv_id in the ledger at the start, exactly N - M pairs are collected
\* (an arxiv_id new to the ledger is collected once per entry).
C5_ResumeCountByEntries ==
    InBatchLoop => Len(papers_to_process) = Cardinality(KeyedEntries) - Cardinality(PresentEntries)

\* C5 witness: two entries of one new arxiv_id were both collected.
C5_Witness ==
    /\ InBatchLoop
    /\ Len(papers_to_process) = 2
    /\ papers_to_process[1][1] = papers_to_process[2][1]

\* C7: while process_pwc_dump runs (and so wherever it may be terminated)
\* the committed table is the table as it was when the current batch started,
\* or that table with every hit aggregated for the batch inserted.
C7_BatchAtomicity ==
    InBatchLoop =>
        \/ hits = batch_table
        \/ /\ pc = "batch"
           /\ consumed = 1..Len(fut)
           /\ hits = InsertLoop(batch_table, batch_hits, clock)

\* C7 witness: insert_hits is between two statements of a batch of several
\* hits, its connection holding rows that are not committed.
C7_Witness ==
    /\ pc = "insert"
    /\ insert_idx = 2
    /\ Len(batch_hits) >= 2
    /\ txn # hits
    /\ batch_hits[1].arxiv_id # batch_hits[2].arxiv_id

\* C8: once an enrichment call of batch k has raised, the table stays as it
\* was when batch k started, no call of a later batch is started, the run
\* never reaches insert_hits or a next batch, and it ends by raising.
C8_FailFast ==
    failed_calls # {} =>
        /\ hits = batch_table
        /\ \A f \in failed_calls : \A s \in started : s.batch <= f.batch
        /\ pc \notin {"batch", "insert"}
        /\ pc = "link" => ingest_result = "raised"

\* C8 witness: process_pwc_dump raised in a batch after it had committed an
\* earlier batch of the same run.
C8_Witness ==
    /\ pc = "link"
    /\ ingest_result = "raised"
    /\ hits # start_table
    /\ \E f \in failed_calls : f.batch = 2

\* C10: process_pwc_dump raises only after some call has issued max_retries
\* requests.
C10_AbortOnlyAfterRetries ==
    ingest_result = "raised" => \E f \in failed_calls : f.requests >= DefaultMaxRetries

\* The results of the calls of a batch, concatenated in submission order.
RECURSIVE ResultsInSubmissionOrder(_)
ResultsInSubmissionOrder(futures) ==
    IF futures = << >> THEN << >>
    ELSE Head(futures).result \o ResultsInSubmissionOrder(Tail(futures))

\* The ledger row a remote write of this call was made for.
WrittenRow(w) == CHOOSE r \in hits : r.arxiv_id = w.arxiv_id

\* C21: when a batch has been persisted, the table is the one obtained by
\* inserting the results in submission order, whatever the completion order.
C21_OrderIndependent ==
    (pc = "batch" /\ batch_count >= 1) =>
        hits = InsertLoop(batch_table, ResultsInSubmissionOrder(fut), clock)

\* C22: when process_pwc_dump has raised FileNotFoundError, no enrichment
\* call was started and the table is the one the call found.
C22_InputNotFound ==
    ingest_result = "FileNotFoundError" =>
        /\ started = {}
        /\ failed_calls = {}
        /\ hits = start_table
        /\ has_table

\* C22 witness: FileNotFoundError was raised in a run that found rows in the
\* table.
C22_Witness ==
    /\ ingest_result = "FileNotFoundError"
    /\ pc = "link"
    /\ hits # {}

C27_PhaseOrdering ==
    /\ pc \in {"pub_collect", "pub_abort"} =>
          /\ has_table
          /\ fut = << >>
          /\ insert_idx = 0
          /\ papers_to_process = << >>
    /\ pc \in {"ingest", "batch", "collect", "abort", "insert"} =>
          /\ queue = {}
          /\ pfut = << >>

\* C27 witness: the publisher has written to the graph after an ingestion
\* pass that persisted two batches.
C27_Witness ==
    /\ pc = "pub_collect"
    /\ \E w \in write_log : w.ok
    /\ clock >= 2

\* C30: the number of enrichment calls in flight never exceeds max_workers.
C30_BoundedFanOut ==
    Cardinality(Running(fut)) <= max_workers

\* C30 witness: with one pool thread, one call of a batch of two runs while
\* the other waits in the queue.
C30_Witness ==
    /\ max_workers = 1
    /\ Len(fut) = 2
    /\ Cardinality(Running(fut)) = 1
    /\ \E i \in DOMAIN fut : fut[i].st = "pending"

C12_DefaultNonFatal ==
    pub_result # "raised"

\* C13: a row whose remote write raised in a call of link_repos_to_mardi_kg
\* has flag 0 and is among the rows _load_hits returns, during the call, when
\* it ends and until the next call loads its queue.
C13_FailedRowStaysPending ==
    \A w \in write_log : ~w.ok =>
        /\ w.arxiv_id \notin Published(hits)
        /\ \E h \in LoadHits(hits) : h.arxiv_id = w.arxiv_id

\* C13 witness: a call of link_repos_to_mardi_kg has ended by raising, after
\* one remote write raised and another row was written and flagged.
C13_Witness ==
    /\ pc = "idle"
    /\ pub_result = "raised"
    /\ \E w \in write_log : ~w.ok
    /\ Published(hits) # {}

\* C14: once every call of _process_hit has returned, every arxiv_id for
\* which _mark_updated was called is flagged.
C14_NoLostMark ==
    (pc \in {"pub_collect", "pub_abort"} /\ PubFinished = DOMAIN pfut) =>
        \A w \in write_log : w.ok => FlagOf(hits, w.arxiv_id) = 1

\* C17: no step of a sequence of pipeline runs removes an arxiv_id from the
\* table or takes the flag of a row from 1 to 0.
C17_LedgerMonotonic ==
    [][/\ {r.arxiv_id : r \in hits} \subseteq {r.arxiv_id : r \in hits'}
       /\ Published(hits) \subseteq Published(hits')]_vars

\* C17 witness: the second run has persisted a batch while the table holds a
\* row published by the first run.
C17_Witness ==
    /\ run = 2
    /\ pc = "batch"
    /\ batch_count >= 1
    /\ hits # start_table
    /\ Published(hits) # {}

\* C19: when a batch has been persisted, every arxiv_id of the batch has a
\* row in the table.
C19_RowPerAttemptedKey ==
    (pc = "batch" /\ batch_count >= 1) =>
        \A i \in 1..Len(CurrentBatch) : RowsOf(hits, CurrentBatch[i][1]) # {}

\* C19 witness: a batch was persisted with a call whose search found no match.
C19_Witness ==
    /\ pc = "batch"
    /\ batch_count >= 1
    /\ \E i \in 1..Len(CurrentBatch) :
          \E r \in RowsOf(hits, CurrentBatch[i][1]) : r.qid = NoQid /\ r \notin start_table

\* C20: insert_hits runs for a batch only when every call of the batch has
\* completed and was collected; a call runs only in the pool phase of its own
\* batch, and by then every call of an earlier batch has its hits persisted.
C20_BatchOrdering ==
    InBatchLoop =>
        /\ pc = "insert" => \A i \in DOMAIN fut : fut[i].st = "ok" /\ i \in consumed
        /\ Running(fut) # {} => pc \in {"collect", "abort"}
        /\ \A s \in started :
              /\ s.batch <= batch_count
              /\ s.batch < batch_count => RowsOf(hits, s.arxiv_id) # {}

\* C20 witness: a call of the second batch runs, the first batch being
\* persisted.
C20_Witness ==
    /\ pc = "collect"
    /\ batch_count = 2
    /\ Running(fut) # {}
    /\ \E s \in started : s.batch = 1 /\ RowsOf(hits, s.arxiv_id) # {}

\* The records enriched when k batches are done.
RECURSIVE EnrichedSoFar(_)
EnrichedSoFar(k) ==
    IF k = 0 THEN 0
    ELSE Len(Batch(papers_to_process, batch_size, k)) + EnrichedSoFar(k - 1)

\* C31: a step that flags a row is made by a call of _process_hit whose remote
\* write returned; no row whose write failed or that was skipped is flagged.
C31_WriteBeforeMark ==
    [][\A k \in Published(hits') \ Published(hits) :
          /\ k \in DOMAIN pfut
          /\ pfut[k] = "written"
          /\ Linkable(QueuedHit(k))
          /\ \E w \in write_log : w.arxiv_id = k /\ w.ok]_vars

\* C31 witness: in one call of link_repos_to_mardi_kg a row was written and
\* flagged and another row, with a missing field, was skipped.
C31_Witness ==
    /\ pc = "pub_collect"
    /\ \E k \in DOMAIN pfut : pfut[k] = "done" /\ k \in Published(hits)
    /\ \E k \in DOMAIN pfut :
          pfut[k] = "done" /\ ~Linkable(QueuedHit(k)) /\ k \notin Published(hits)

C33_PublisherProgress ==
    (/\ pc = "idle"
     /\ pub_result = "done"
     /\ \A w \in write_log : w.ok /\ w.arxiv_id \in Published(hits))
    => LoadHits(hits) = {}

\* C34: when a batch has been persisted, the row of each arxiv_id of the list
\* passed to insert_hits is the last hit of that arxiv_id in the list.
C34_LastHitWins ==
    (pc = "batch" /\ batch_count >= 1) =>
        \A i \in 1..Len(batch_hits) :
            (\A j \in (i + 1)..Len(batch_hits) :
                 batch_hits[j].arxiv_id # batch_hits[i].arxiv_id) =>
                /\ Cardinality(RowsOf(hits, batch_hits[i].arxiv_id)) = 1
                /\ \A r \in RowsOf(hits, batch_hits[i].arxiv_id) : HitPart(r) = batch_hits[i]

\* C34 witness: a hit with a qid was followed in the list by a hit of the
\* same arxiv_id without one, and the row has no qid.
C34_Witness ==
    /\ pc = "batch"
    /\ batch_count >= 1
    /\ \E i \in 1..Len(batch_hits), j \in 1..Len(batch_hits) :
          /\ i < j
          /\ batch_hits[i].arxiv_id = batch_hits[j].arxiv_id
          /\ batch_hits[i].qid # NoQid
          /\ batch_hits[j].qid = NoQid
          /\ \A r \in RowsOf(hits, batch_hits[i].arxiv_id) : r.qid = NoQid

\* C35: after the scan, skip_count is the number of entries whose arxiv_id
\* had a row, the entries collected are the other entries with an arxiv_id,
\* in dump order, and collected, skipped and id-less entries add up to the
\* dump.
C35_StreamAccounting ==
    InBatchLoop =>
        LET fresh == KeyedEntries \ PresentEntries IN
        /\ skip_count = Cardinality(PresentEntries)
        /\ Len(papers_to_process) = Cardinality(fresh)
        /\ \A i \in fresh :
              papers_to_process[Cardinality({j \in fresh : j <= i})] =
                  <<dump[i].paper_arxiv_id, dump[i]>>
        /\ Len(papers_to_process) + skip_count
              + Cardinality((1..Len(dump)) \ KeyedEntries) = Len(dump)

\* C35 witness: a scan skipped one entry and collected another.
C35_Witness ==
    /\ InBatchLoop
    /\ skip_count = 1
    /\ Len(papers_to_process) = 1

\* C37: when link_repos_to_mardi_kg returns for want of credentials, it holds
\* no queue and no call, and table and graph are as they were.
C37_MissingCredentials ==
    [][(pc = "link" /\ pub_result' = "no_credentials") =>
          /\ queue' = {}
          /\ pfut' = << >>
          /\ hits' = hits
          /\ kg' = kg
          /\ write_log' = {}]_vars

\* C37 witness: link_repos_to_mardi_kg returned for want of credentials with
\* rows pending in the table.
C37_Witness ==
    /\ pc = "idle"
    /\ pub_result = "no_credentials"
    /\ LoadHits(hits) # {}

\* C39: after each batch, papers_processed is the number of records enriched
\* so far and is at most the number of records to process.
C39_ProgressCount ==
    (pc = "batch" /\ batch_count >= 1) =>
        /\ PapersProcessed(batch_count, batch_size) = EnrichedSoFar(batch_count)
        /\ PapersProcessed(batch_count, batch_size) <= Len(papers_to_process)

\* ------------------------------------------ the legacy extractor (main)
\* ThreadPoolExecutor(max_workers=10)
LegacyWorkers == 10

\* load_existing_results(path)
LoadExistingResults(file) == IF file = NoFile THEN FreshResults ELSE file

\* One result of search_arxiv.
SearchArxivHit(arxiv_id, paper, r) ==
    LET clean_snippet == CleanSnippet(Get(r, "snippet", << >>)) IN
    [qid |-> ExtractQid(clean_snippet),
     arxiv_id |-> arxiv_id,
     title |-> Get(r, "title", "(no title)"),
     repo_url |-> Get(paper, "repo_url", None),
     is_official |-> Get(paper, "is_official", None),
     mentioned_in_paper |-> Get(paper, "mentioned_in_paper", None),
     mentioned_in_github |-> Get(paper, "mentioned_in_github", None),
     pwc_page |-> Get(paper, "paper_url", None),
     snippet |-> clean_snippet]

\* search_arxiv(arxiv_id, paper) for a response: one hit per result, none
\* for an empty response.
SearchArxiv(arxiv_id, paper, response) ==
    [n \in 1..Len(response) |-> SearchArxivHit(arxiv_id, paper, response[n])]

\* One iteration of the scan loop of main over the dump entry at position i:
\* entries up to and including the one with last_id are passed over.
LegacyScanStep(acc, i, paper, last_id) ==
    LET arxiv_id == Get(paper, "paper_arxiv_id", None) IN
    IF ~Truthy(arxiv_id) THEN acc
    ELSE IF ~acc.found_last
         THEN [acc EXCEPT !.found_last = (arxiv_id = last_id)]
         ELSE [acc EXCEPT !.papers_to_process = Append(@, <<arxiv_id, paper>>),
                          !.entries = Append(@, i)]

RECURSIVE LegacyScan(_, _, _)
\* The scan loop of main over the first n entries of the dump.
LegacyScan(all_papers, n, last_id) ==
    IF n = 0
    THEN [found_last |-> (last_id = None), papers_to_process |-> << >>, entries |-> << >>]
    ELSE LegacyScanStep(LegacyScan(all_papers, n - 1, last_id), n, all_papers[n], last_id)

\* The memory of a run of main that has not started.
LegacyReset ==
    /\ l_data' = FreshResults
    /\ l_papers' = << >>
    /\ l_fut' = << >>
    /\ l_consumed' = {}
    /\ l_entries' = << >>

\* main loads the results file, scans the dump and submits one search per
\* collected paper.
LegacyStart ==
    /\ l_pc = "start"
    /\ LET loaded == LoadExistingResults(l_file)
           scan == LegacyScan(l_dump, Len(l_dump), loaded.last_processed_arxiv_id) IN
       /\ l_data' = loaded
       /\ l_papers' = scan.papers_to_process
       /\ l_entries' = scan.entries
       /\ l_fut' = [i \in 1..Len(scan.papers_to_process) |-> [st |-> "pending", result |-> << >>]]
    /\ l_consumed' = {}
    /\ l_runs' = l_runs + 1
    /\ l_pc' = "collect"
    /\ UNCHANGED <<l_dump, l_file, l_processed, storeVars, ghostVars, queryVars, pipeVars, pureVars>>

\* A pool thread takes the next queued search (in submission order).
LegacySearchStart(i) ==
    /\ l_pc = "collect"
    /\ l_fut[i].st = "pending"
    /\ \A j \in 1..(i - 1) : l_fut[j].st # "pending"
    /\ PoolHasIdleThread(l_fut, LegacyWorkers)
    /\ l_fut' = [l_fut EXCEPT ![i].st = "running"]
    /\ UNCHANGED <<l_pc, l_dump, l_file, l_data, l_papers, l_consumed, l_entries, l_runs,
                   l_processed, storeVars, ghostVars, queryVars, pipeVars, pureVars>>

\* The request of search i succeeds: search_arxiv returns its results.
LegacySearchOk(i, response) ==
    /\ l_pc = "collect"
    /\ l_fut[i].st = "running"
    /\ l_fut' = [l_fut EXCEPT ![i].st = "ok",
                              ![i].result = SearchArxiv(l_papers[i][1], l_papers[i][2], response)]
    /\ UNCHANGED <<l_pc, l_dump, l_file, l_data, l_papers, l_consumed, l_entries, l_runs,
                   l_processed, storeVars, ghostVars, queryVars, pipeVars, pureVars>>

\* The request of search i raises: search_arxiv raises with it.
LegacySearchFail(i) ==
    /\ l_pc = "collect"
    /\ l_fut[i].st = "running"
    /\ l_fut' = [l_fut EXCEPT ![i].st = "failed"]
    /\ UNCHANGED <<l_pc, l_dump, l_file, l_data, l_papers, l_consumed, l_entries, l_runs,
                   l_processed, storeVars, ghostVars, queryVars, pipeVars, pureVars>>

\* One iteration of the as_completed loop, for the finished future i: its
\* hits are appended and counted (an exception is logged), the metadata is
\* updated, and the results file is saved when hit_counter is a multiple
\* of 10.
LegacyCollect(i) ==
    /\ l_pc = "collect"
    /\ i \notin l_consumed
    /\ l_fut[i].st \in {"ok", "failed"}
    /\ l_consumed' = l_consumed \cup {i}
    /\ LET got == IF l_fut[i].st = "ok" THEN l_fut[i].result ELSE << >>
           results == l_data.hits \o got
           hit_counter == l_data.total_hits + Len(got)
           updated == [hits |-> results,
                       total_hits |-> hit_counter,
                       last_processed_arxiv_id |-> l_papers[i][1]] IN
       /\ l_data' = updated
       /\ l_file' = IF hit_counter % 10 = 0 THEN updated ELSE l_file
    /\ l_processed' = l_processed \cup {l_entries[i]}
    /\ UNCHANGED <<l_pc, l_dump, l_papers, l_fut, l_entries, l_runs,
                   storeVars, ghostVars, queryVars, pipeVars, pureVars>>

\* Every future has been yielded: the pool is left and the results file is
\* saved.
LegacyFinish ==
    /\ l_pc = "collect"
    /\ AllTaken(l_fut, l_consumed)
    /\ l_file' = l_data
    /\ l_pc' = "done"
    /\ UNCHANGED <<l_dump, l_data, l_papers, l_fut, l_consumed, l_entries, l_runs,
                   l_processed, storeVars, ghostVars, queryVars, pipeVars, pureVars>>

\* The process is stopped inside the loop and main is started again: the
\* results file is what is left of the run.
LegacyInterrupt ==
    /\ l_pc = "collect"
    /\ l_runs < MaxRuns
    /\ l_pc' = "start"
    /\ LegacyReset
    /\ UNCHANGED <<l_dump, l_file, l_runs, l_processed,
                   storeVars, ghostVars, queryVars, pipeVars, pureVars>>

LegacyInit ==
    /\ has_table = FALSE
    /\ hits = {}
    /\ clock = 0
    /\ GhostIdle
    /\ QueryIdle
    /\ PipeIdle
    /\ PureIdle
    /\ l_pc = "start"
    /\ l_dump \in Dumps(MaxDump)
    /\ l_file = NoFile
    /\ l_data = FreshResults
    /\ l_papers = << >>
    /\ l_fut = << >>
    /\ l_consumed = {}
    /\ l_entries = << >>
    /\ l_runs = 0
    /\ l_processed = {}

LegacyNext ==
    \/ LegacyStart
    \/ \E i \in 1..Len(l_fut) : LegacySearchStart(i)
    \/ \E i \in 1..Len(l_fut), response \in IndexResponses : LegacySearchOk(i, response)
    \/ \E i \in 1..Len(l_fut) : LegacySearchFail(i)
    \/ \E i \in 1..Len(l_fut) : LegacyCollect(i)
    \/ LegacyFinish
    \/ LegacyInterrupt

SpecLegacy == LegacyInit /\ [][LegacyNext]_vars

\* C38: when a run of main that followed an interrupted run is done, the
\* future of every dump entry with an arxiv_id has been taken from
\* as_completed by one of the runs.
C38_LegacyResume ==
    (l_pc = "done" /\ l_runs > 1) =>
        \A i \in 1..Len(l_dump) :
            Truthy(Get(l_dump[i], "paper_arxiv_id", None)) => i \in l_processed

\* ------------------------------------- pure functions, applied on their own
\* The pieces snippets are built from: the two tags, "QID" whole and split,
\* the letter Q, one and two digits, and another character.
Chunks ==
    { <<OpenTag>>, <<CloseTag>>, <<"Q", "I", "D">>, <<"Q", "I">>, <<"D">>, <<"Q">>,
      <<"1">>, <<"1", "2">>, <<"x">> }

\* The snippets of at most n chunks.
RECURSIVE Snippets(_)
Snippets(n) ==
    IF n = 0 THEN {<< >>}
    ELSE LET shorter == Snippets(n - 1) IN
         shorter \cup {s \o c : s \in shorter, c \in Chunks}

\* Arguments of _batchify: a list of distinct items and a batch size.
BatchifyInputs ==
    {[fn |-> "_batchify", items |-> [i \in 1..n |-> i], size |-> z] :
        n \in 0..MaxItems, z \in 1..MaxSize}

\* Arguments of _process_hit: a linkable hit with every combination of the
\* two provenance flags.
ProcessHitInputs ==
    {[fn |-> "_process_hit",
      hit |-> EntryHit("a1", Paper("a1", "r1", "u1", TRUE, mip, mig), EntryQ1)] :
        mip \in BOOLEAN, mig \in BOOLEAN}

\* A search response of one result entry, for the loop body of query_mardi_kg.
EntryInputs ==
    {[fn |-> "query_mardi_kg", entry |-> [title |-> "Publication:1", snippet |-> s]] :
        s \in Snippets(MaxChunks)}

\* The generator _batchify yields its next slice.
BatchifyYield ==
    /\ f_pc = "run"
    /\ f_in.fn = "_batchify"
    /\ HasBatch(f_in.items, f_in.size, Len(f_out) + 1)
    /\ f_out' = Append(f_out, Batch(f_in.items, f_in.size, Len(f_out) + 1))
    /\ UNCHANGED <<f_pc, f_in, storeVars, ghostVars, queryVars, pipeVars, legacyVars>>

\* The range of _batchify is exhausted.
BatchifyStop ==
    /\ f_pc = "run"
    /\ f_in.fn = "_batchify"
    /\ ~HasBatch(f_in.items, f_in.size, Len(f_out) + 1)
    /\ f_pc' = "done"
    /\ UNCHANGED <<f_in, f_out, storeVars, ghostVars, queryVars, pipeVars, legacyVars>>

\* _process_hit on a linkable hit: the statement written to an empty graph.
ApplyProcessHit ==
    /\ f_pc = "run"
    /\ f_in.fn = "_process_hit"
    /\ Linkable(f_in.hit)
    /\ f_out' = UpdateKgItemWithRepo({}, f_in.hit)
    /\ f_pc' = "done"
    /\ UNCHANGED <<f_in, storeVars, ghostVars, queryVars, pipeVars, legacyVars>>

\* query_mardi_kg builds the hit of the single result entry.
ApplyEntryHit ==
    /\ f_pc = "run"
    /\ f_in.fn = "query_mardi_kg"
    /\ f_out' = BuildHits("a1", Paper("a1", "r1", "u1", TRUE, TRUE, FALSE), <<f_in.entry>>)
    /\ f_pc' = "done"
    /\ UNCHANGED <<f_in, storeVars, ghostVars, queryVars, pipeVars, legacyVars>>

PureInit ==
    /\ has_table = FALSE
    /\ hits = {}
    /\ clock = 0
    /\ GhostIdle
    /\ QueryIdle
    /\ PipeIdle
    /\ LegacyIdle
    /\ f_pc = "run"
    /\ f_in \in BatchifyInputs \cup ProcessHitInputs \cup EntryInputs
    /\ f_out = << >>

PureNext ==
    \/ BatchifyYield
    \/ BatchifyStop
    \/ ApplyProcessHit
    \/ ApplyEntryHit

SpecPure == PureInit /\ [][PureNext]_vars

\* C24: the label of the written statement is "publication" when
\* mentioned_in_paper is true (also when mentioned_in_github is true as
\* well), otherwise "repository README" when mentioned_in_github is true,
\* otherwise "unknown".
C24_ProvenanceLabel ==
    (f_in.fn = "_process_hit" /\ f_pc = "done") =>
        /\ Cardinality(f_out) = 1
        /\ \A st \in f_out :
              /\ f_in.hit.mentioned_in_paper => st.harvested_from = "publication"
              /\ (~f_in.hit.mentioned_in_paper /\ f_in.hit.mentioned_in_github) =>
                    st.harvested_from = "repository README"
              /\ (~f_in.hit.mentioned_in_paper /\ ~f_in.hit.mentioned_in_github) =>
                    st.harvested_from = "unknown"

\* C24 witness: a hit with both flags true was written with "publication".
C24_Witness ==
    /\ f_in.fn = "_process_hit"
    /\ f_pc = "done"
    /\ f_in.hit.mentioned_in_paper /\ f_in.hit.mentioned_in_github
    /\ \E st \in f_out : st.harvested_from = "publication"

C29_BatchPartition ==
    f_in.fn = "_batchify" =>
        LET items == f_in.items
            size == f_in.size
            n == Len(f_out)
        IN  /\ \A k \in 1..n : \A j \in 1..Len(f_out[k]) :
                  f_out[k][j] = items[(k - 1) * size + j]
            /\ \A k \in 1..(n - 1) : Len(f_out[k]) = size
            /\ n >= 1 => Len(f_out[n]) \in 1..size
            /\ \A k1 \in 1..n, k2 \in 1..n : k1 # k2 =>
                  \A j1 \in 1..Len(f_out[k1]), j2 \in 1..Len(f_out[k2]) :
                      f_out[k1][j1] # f_out[k2][j2]
            /\ f_pc = "done" =>
                  \/ n = 0 /\ items = << >>
                  \/ n >= 1 /\ (n - 1) * size + Len(f_out[n]) = Len(items)

\* C29 witness: a list was cut into two batches, the last one short.
C29_Witness ==
    /\ f_in.fn = "_batchify"
    /\ f_pc = "done"
    /\ Len(f_out) = 2
    /\ Len(f_out[2]) < f_in.size

====
